---- MODULE Spec2Model ----
(***************************************************************************)
(* Model of providers/oidc.go: the OpenID Connect provider of oauth2_proxy *)
(* (Redeem, createSessionState, RefreshSessionIfNeeded, redeemRefreshToken,*)
(* SetGroupRestriction, ValidateGroup, ValidateSessionState,               *)
(* GetEmailAddress).                                                       *)
(*                                                                         *)
(* The token endpoint and the id-token verifier are external: the token    *)
(* endpoint answers every exchange with an error or with any token bundle  *)
(* of a small set, and the verifier accepts a raw token when its key is    *)
(* good and it has not expired at the time of the call.  A raw token       *)
(* string determines its payload (a JWT carries its claims).               *)
(***************************************************************************)
EXTENDS Integers, Sequences, FiniteSets, TLC

\* The clock runs over 0..MaxTime; expiries are drawn from the same range.
MaxTime == 1

Times == 0..MaxTime

\* token.Extra("id_token") is not a string
NoIdToken == "<no id_token>"

\* Raw id tokens with a good key, a decodable payload and a usable email
\* (id_a expires after time 0), and raw id tokens createSessionState rejects.
UsableIdTokens == {"id_a", "id_b"}

RejectedIdTokens == {"id_unverified", "id_noemail", "id_badsig", "id_badclaims"}

\* Raw access tokens: three that differ in what the verifier and the group
\* policy make of them, and two whose role claims are empty or undecodable.
CommonAccessTokens == {"at_devops", "at_dev", "at_badsig"}

RareAccessTokens == {"at_none", "at_badclaims"}

AccessTokens == CommonAccessTokens \cup RareAccessTokens

RefreshTokens == {"", "RT1"}

Codes == {"abc123"}

\* The allowed-groups slices SetGroupRestriction is called with.
GroupLists == {<< >>, <<"admin", "ops">>}

\* The payload a raw token string carries.  key/exp decide verification;
\* decodable says whether Claims() can unmarshal the payload into the
\* struct asked for; verified is the tri-state email_verified claim.
PayloadTable ==
  [raw \in UsableIdTokens \cup RejectedIdTokens \cup AccessTokens |->
    CASE raw = "id_a" ->
         [key |-> "good", exp |-> 0, decodable |-> TRUE, email |-> "a@example.com",
          verified |-> "true", roles |-> << >>]
    [] raw = "id_b" ->
         [key |-> "good", exp |-> MaxTime, decodable |-> TRUE, email |-> "b@example.com",
          verified |-> "absent", roles |-> <<"ops">>]
    [] raw = "id_unverified" ->
         [key |-> "good", exp |-> MaxTime, decodable |-> TRUE, email |-> "a@example.com",
          verified |-> "false", roles |-> << >>]
    [] raw = "id_noemail" ->
         [key |-> "good", exp |-> MaxTime, decodable |-> TRUE, email |-> "",
          verified |-> "true", roles |-> << >>]
    [] raw = "id_badsig" ->
         [key |-> "bad", exp |-> MaxTime, decodable |-> TRUE, email |-> "a@example.com",
          verified |-> "true", roles |-> <<"admin">>]
    [] raw = "id_badclaims" ->
         [key |-> "good", exp |-> MaxTime, decodable |-> FALSE, email |-> "",
          verified |-> "absent", roles |-> << >>]
    [] raw = "at_devops" ->
         [key |-> "good", exp |-> MaxTime, decodable |-> TRUE, email |-> "",
          verified |-> "absent", roles |-> <<"dev", "ops">>]
    [] raw = "at_dev" ->
         [key |-> "good", exp |-> MaxTime, decodable |-> TRUE, email |-> "",
          verified |-> "absent", roles |-> <<"dev">>]
    [] raw = "at_none" ->
         [key |-> "good", exp |-> MaxTime, decodable |-> TRUE, email |-> "",
          verified |-> "absent", roles |-> << >>]
    [] raw = "at_badsig" ->
         [key |-> "bad", exp |-> MaxTime, decodable |-> TRUE, email |-> "",
          verified |-> "absent", roles |-> <<"admin", "ops">>]
    [] raw = "at_badclaims" ->
         [key |-> "good", exp |-> MaxTime, decodable |-> FALSE, email |-> "",
          verified |-> "absent", roles |-> << >>]
]

\* Any other string (the empty string, an opaque token) is no JWT.
Payload(raw) ==
  IF raw \in DOMAIN PayloadTable
    THEN PayloadTable[raw]
    ELSE [key |-> "bad", exp |-> 0, decodable |-> FALSE, email |-> "",
          verified |-> "absent", roles |-> << >>]

\* p.Verifier.Verify(ctx, raw) at time t: err == nil
Verify(raw, t) == Payload(raw).key = "good" /\ t <= Payload(raw).exp

\* A nil *SessionState, and the zero error.
NilSession ==
  [isNil |-> TRUE, AccessToken |-> "", IdToken |-> "", RefreshToken |-> "",
   ExpiresOn |-> 0, Email |-> "", User |-> ""]

\* An error is the chain of its messages, outermost first (each
\* fmt.Errorf("...: %v", err) puts one message in front); nil is empty.
NoError == << >>

Errorf(msg, err) == <<msg>> \o err

\* What the token endpoint can answer: an error, or a token bundle.
ExchangeError ==
  [ok |-> FALSE, AccessToken |-> "", RefreshToken |-> "", Expiry |-> 0,
   id_token |-> NoIdToken]

\* Bundles with a usable id token and a common access token carry every
\* combination of the other fields; one bundle stands for each rare access
\* token and for each kind of unusable id token.
Bundles ==
  [ok : {TRUE}, AccessToken : CommonAccessTokens, RefreshToken : RefreshTokens,
   Expiry : Times, id_token : UsableIdTokens]
  \cup
  [ok : {TRUE}, AccessToken : RareAccessTokens, RefreshToken : {"RT1"},
   Expiry : {0}, id_token : {"id_b"}]
  \cup
  [ok : {TRUE}, AccessToken : {"at_dev"}, RefreshToken : {"RT1"},
   Expiry : {MaxTime}, id_token : RejectedIdTokens \cup {NoIdToken}]

ExchangeOutcomes == {ExchangeError} \cup Bundles

\* What happens to the userinfo request of GetEmailAddress: http.NewRequest
\* returns a request or (nil, err), and api.Request returns an error, a
\* body whose email field is a string, or a body without such a field.
NoRequest == [build |-> "none", send |-> "none", email |-> ""]

RequestOutcomes ==
  {[build |-> "error", send |-> "none", email |-> ""],
   [build |-> "ok", send |-> "error", email |-> ""],
   [build |-> "ok", send |-> "no email string", email |-> ""],
   [build |-> "ok", send |-> "ok", email |-> "c@example.com"]}

VARIABLES
  now,             \* time.Now()
  sess,            \* the session the proxy holds (nil before the first login)
  GroupValidator,  \* p.GroupValidator: the default closure or an installed one
  call,            \* the last call: operation, time, session before it, what
                   \* the token endpoint answered (out), the calls it made
                   \* to the collaborators, and what it returned
  idpRoles,        \* the roles the identity provider holds for the user now
  pc,              \* per goroutine refreshing sess: where it is in
                   \* RefreshSessionIfNeeded / redeemRefreshToken
  loc,             \* per goroutine: its local variables and return values
  seen             \* what a concurrent reader of sess last saw

vars == <<now, sess, GroupValidator, call, idpRoles, pc, loc, seen>>

\* The part of the state only the identity provider and concurrent
\* goroutines change.
others == <<idpRoles, pc, loc, seen>>


\* One verifier call and one token-endpoint call, as the last call made them.
VerifyCall(raw, t) == [raw |-> raw, ok |-> Verify(raw, t)]

ExchangeCall(grant, cred, out) == [grant |-> grant, cred |-> cred, ok |-> out.ok]

\* createSessionState with the verifier's error ignored.
createSessionStateNoVerify(token, t) ==
  LET rawIDToken == token.id_token
      claims == Payload(rawIDToken)
      failed(msg, v) == [s |-> NilSession, err |-> <<msg>>, verify |-> v]
  IN  IF rawIDToken = NoIdToken
        THEN failed("token response did not contain an id_token", << >>)
      ELSE IF ~claims.decodable
        THEN failed("failed to parse id_token claims", <<VerifyCall(rawIDToken, t)>>)
      ELSE IF claims.email = ""
        THEN failed("id_token did not contain an email", <<VerifyCall(rawIDToken, t)>>)
      ELSE IF claims.verified = "false"
        THEN failed("email in id_token isn't verified", <<VerifyCall(rawIDToken, t)>>)
      ELSE [s |-> [isNil |-> FALSE,
                   AccessToken |-> token.AccessToken,
                   IdToken |-> rawIDToken,
                   RefreshToken |-> token.RefreshToken,
                   ExpiresOn |-> token.Expiry,
                   Email |-> claims.email,
                   User |-> ""],
            err |-> NoError,
            verify |-> <<VerifyCall(rawIDToken, t)>>]

\* createSessionState without the test for an empty email.
createSessionStateNoEmailCheck(token, t) ==
  LET rawIDToken == token.id_token
      claims == Payload(rawIDToken)
      failed(msg, v) == [s |-> NilSession, err |-> <<msg>>, verify |-> v]
  IN  IF rawIDToken = NoIdToken
        THEN failed("token response did not contain an id_token", << >>)
      ELSE IF ~Verify(rawIDToken, t)
        THEN failed("could not verify id_token", <<VerifyCall(rawIDToken, t)>>)
      ELSE IF ~claims.decodable
        THEN failed("failed to parse id_token claims", <<VerifyCall(rawIDToken, t)>>)
      ELSE IF claims.verified = "false"
        THEN failed("email in id_token isn't verified", <<VerifyCall(rawIDToken, t)>>)
      ELSE [s |-> [isNil |-> FALSE,
                   AccessToken |-> token.AccessToken,
                   IdToken |-> rawIDToken,
                   RefreshToken |-> token.RefreshToken,
                   ExpiresOn |-> token.Expiry,
                   Email |-> claims.email,
                   User |-> ""],
            err |-> NoError,
            verify |-> <<VerifyCall(rawIDToken, t)>>]

\* createSessionState that takes an absent email_verified for false.
createSessionStateStrict(token, t) ==
  LET rawIDToken == token.id_token
      claims == Payload(rawIDToken)
      failed(msg, v) == [s |-> NilSession, err |-> <<msg>>, verify |-> v]
  IN  IF rawIDToken = NoIdToken
        THEN failed("token response did not contain an id_token", << >>)
      ELSE IF ~Verify(rawIDToken, t)
        THEN failed("could not verify id_token", <<VerifyCall(rawIDToken, t)>>)
      ELSE IF ~claims.decodable
        THEN failed("failed to parse id_token claims", <<VerifyCall(rawIDToken, t)>>)
      ELSE IF claims.email = ""
        THEN failed("id_token did not contain an email", <<VerifyCall(rawIDToken, t)>>)
      ELSE IF claims.verified # "true"
        THEN failed("email in id_token isn't verified", <<VerifyCall(rawIDToken, t)>>)
      ELSE [s |-> [isNil |-> FALSE,
                   AccessToken |-> token.AccessToken,
                   IdToken |-> rawIDToken,
                   RefreshToken |-> token.RefreshToken,
                   ExpiresOn |-> token.Expiry,
                   Email |-> claims.email,
                   User |-> ""],
            err |-> NoError,
            verify |-> <<VerifyCall(rawIDToken, t)>>]

\* createSessionState with the expiry taken from the clock.
createSessionStateClockExpiry(token, t) ==
  LET rawIDToken == token.id_token
      claims == Payload(rawIDToken)
      failed(msg, v) == [s |-> NilSession, err |-> <<msg>>, verify |-> v]
  IN  IF rawIDToken = NoIdToken
        THEN failed("token response did not contain an id_token", << >>)
      ELSE IF ~Verify(rawIDToken, t)
        THEN failed("could not verify id_token", <<VerifyCall(rawIDToken, t)>>)
      ELSE IF ~claims.decodable
        THEN failed("failed to parse id_token claims", <<VerifyCall(rawIDToken, t)>>)
      ELSE IF claims.email = ""
        THEN failed("id_token did not contain an email", <<VerifyCall(rawIDToken, t)>>)
      ELSE IF claims.verified = "false"
        THEN failed("email in id_token isn't verified", <<VerifyCall(rawIDToken, t)>>)
      ELSE [s |-> [isNil |-> FALSE,
                   AccessToken |-> token.AccessToken,
                   IdToken |-> rawIDToken,
                   RefreshToken |-> token.RefreshToken,
                   ExpiresOn |-> t,
                   Email |-> claims.email,
                   User |-> ""],
            err |-> NoError,
            verify |-> <<VerifyCall(rawIDToken, t)>>]

\* createSessionState(token, ctx) at time t: the session it returns (nil on
\* failure), its error, and the verifier calls it made.
createSessionState(token, t) ==
  LET rawIDToken == token.id_token
      claims == Payload(rawIDToken)
      failed(msg, v) == [s |-> NilSession, err |-> <<msg>>, verify |-> v]
  IN  IF rawIDToken = NoIdToken
        THEN failed("token response did not contain an id_token", << >>)
      ELSE IF ~Verify(rawIDToken, t)
        THEN failed("could not verify id_token", <<VerifyCall(rawIDToken, t)>>)
      ELSE IF ~claims.decodable
        THEN failed("failed to parse id_token claims", <<VerifyCall(rawIDToken, t)>>)
      ELSE IF claims.email = ""
        THEN failed("id_token did not contain an email", <<VerifyCall(rawIDToken, t)>>)
      ELSE IF claims.verified = "false"
        THEN failed("email in id_token isn't verified", <<VerifyCall(rawIDToken, t)>>)
      ELSE [s |-> [isNil |-> FALSE,
                   AccessToken |-> token.AccessToken,
                   IdToken |-> rawIDToken,
                   RefreshToken |-> token.RefreshToken,
                   ExpiresOn |-> token.Expiry,
                   Email |-> claims.email,
                   User |-> ""],
            err |-> NoError,
            verify |-> <<VerifyCall(rawIDToken, t)>>]

\* Redeem that drops the error of createSessionState.
RedeemSwallowsError(code, t, out) ==
  LET exchanges == <<ExchangeCall("authorization_code", code, out)>>
      project(created) ==
        IF created.err # NoError
          THEN [s |-> NilSession, err |-> NoError,
                exchanges |-> exchanges, verify |-> created.verify]
          ELSE [s |-> created.s, err |-> NoError, exchanges |-> exchanges,
                verify |-> created.verify]
  IN  IF ~out.ok
        THEN [s |-> NilSession, err |-> Errorf("token exchange", <<"exchange failed">>),
              exchanges |-> exchanges,
              verify |-> << >>]
        ELSE project(createSessionState(out, t))

\* Redeem(redirectURL, code) at time t, the token endpoint answering out.
Redeem(code, t, out) ==
  LET exchanges == <<ExchangeCall("authorization_code", code, out)>>
      project(created) ==
        IF created.err # NoError
          THEN [s |-> NilSession, err |-> Errorf("unable to update session", created.err),
                exchanges |-> exchanges, verify |-> created.verify]
          ELSE [s |-> created.s, err |-> NoError, exchanges |-> exchanges,
                verify |-> created.verify]
  IN  IF ~out.ok
        THEN [s |-> NilSession, err |-> Errorf("token exchange", <<"exchange failed">>),
              exchanges |-> exchanges,
              verify |-> << >>]
        ELSE project(createSessionState(out, t))

\* redeemRefreshToken with the access token copied before the new bundle is
\* projected: a failed projection leaves a partial write.
redeemRefreshTokenEarlyWrite(s, t, out) ==
  LET exchanges == <<ExchangeCall("refresh_token", s.RefreshToken, out)>>
      early == [s EXCEPT !.AccessToken = out.AccessToken]
      update(created, newSession) ==
        IF created.err # NoError
          THEN [s |-> early, err |-> Errorf("unable to update session", created.err),
                exchanges |-> exchanges, verify |-> created.verify]
          ELSE [s |-> [s EXCEPT !.AccessToken = newSession.AccessToken,
                                !.IdToken = newSession.IdToken,
                                !.RefreshToken = newSession.RefreshToken,
                                !.ExpiresOn = newSession.ExpiresOn,
                                !.Email = newSession.Email],
                err |-> NoError, exchanges |-> exchanges, verify |-> created.verify]
      project(created) == update(created, created.s)
  IN  IF ~out.ok
        THEN [s |-> s, err |-> Errorf("failed to get token", <<"exchange failed">>),
              exchanges |-> exchanges, verify |-> << >>]
        ELSE project(createSessionState(out, t))

\* redeemRefreshToken without the copy of Email.
redeemRefreshTokenStaleEmail(s, t, out) ==
  LET exchanges == <<ExchangeCall("refresh_token", s.RefreshToken, out)>>
      update(created, newSession) ==
        IF created.err # NoError
          THEN [s |-> s, err |-> Errorf("unable to update session", created.err),
                exchanges |-> exchanges, verify |-> created.verify]
          ELSE [s |-> [s EXCEPT !.AccessToken = newSession.AccessToken,
                                !.IdToken = newSession.IdToken,
                                !.RefreshToken = newSession.RefreshToken,
                                !.ExpiresOn = newSession.ExpiresOn],
                err |-> NoError, exchanges |-> exchanges, verify |-> created.verify]
      project(created) == update(created, created.s)
  IN  IF ~out.ok
        THEN [s |-> s, err |-> Errorf("failed to get token", <<"exchange failed">>),
              exchanges |-> exchanges, verify |-> << >>]
        ELSE project(createSessionState(out, t))

\* redeemRefreshToken asking the token endpoint again after a failure.
redeemRefreshTokenRetry(s, t, out) ==
  LET exchanges == <<ExchangeCall("refresh_token", s.RefreshToken, out)>>
      update(created, newSession) ==
        IF created.err # NoError
          THEN [s |-> s, err |-> Errorf("unable to update session", created.err),
                exchanges |-> exchanges, verify |-> created.verify]
          ELSE [s |-> [s EXCEPT !.AccessToken = newSession.AccessToken,
                                !.IdToken = newSession.IdToken,
                                !.RefreshToken = newSession.RefreshToken,
                                !.ExpiresOn = newSession.ExpiresOn,
                                !.Email = newSession.Email],
                err |-> NoError, exchanges |-> exchanges, verify |-> created.verify]
      project(created) == update(created, created.s)
  IN  IF ~out.ok
        THEN [s |-> s, err |-> Errorf("failed to get token", <<"exchange failed">>),
              exchanges |-> exchanges \o exchanges, verify |-> << >>]
        ELSE project(createSessionState(out, t))

\* redeemRefreshToken assigning the whole new session (*s = *newSession).
redeemRefreshTokenCopiesStruct(s, t, out) ==
  LET exchanges == <<ExchangeCall("refresh_token", s.RefreshToken, out)>>
      update(created, newSession) ==
        IF created.err # NoError
          THEN [s |-> s, err |-> Errorf("unable to update session", created.err),
                exchanges |-> exchanges, verify |-> created.verify]
          ELSE [s |-> newSession,
                err |-> NoError, exchanges |-> exchanges, verify |-> created.verify]
      project(created) == update(created, created.s)
  IN  IF ~out.ok
        THEN [s |-> s, err |-> Errorf("failed to get token", <<"exchange failed">>),
              exchanges |-> exchanges, verify |-> << >>]
        ELSE project(createSessionState(out, t))

\* redeemRefreshToken keeping the old refresh token when the bundle has none.
redeemRefreshTokenKeepsRefreshToken(s, t, out) ==
  LET exchanges == <<ExchangeCall("refresh_token", s.RefreshToken, out)>>
      update(created, newSession) ==
        IF created.err # NoError
          THEN [s |-> s, err |-> Errorf("unable to update session", created.err),
                exchanges |-> exchanges, verify |-> created.verify]
          ELSE [s |-> [s EXCEPT !.AccessToken = newSession.AccessToken,
                                !.IdToken = newSession.IdToken,
                                !.RefreshToken = IF newSession.RefreshToken = ""
                                                   THEN s.RefreshToken
                                                   ELSE newSession.RefreshToken,
                                !.ExpiresOn = newSession.ExpiresOn,
                                !.Email = newSession.Email],
                err |-> NoError, exchanges |-> exchanges, verify |-> created.verify]
      project(created) == update(created, created.s)
  IN  IF ~out.ok
        THEN [s |-> s, err |-> Errorf("failed to get token", <<"exchange failed">>),
              exchanges |-> exchanges, verify |-> << >>]
        ELSE project(createSessionState(out, t))

\* redeemRefreshToken(s) at time t, the token endpoint answering out: the
\* session object after the call, the error, and the calls made.
redeemRefreshToken(s, t, out) ==
  LET exchanges == <<ExchangeCall("refresh_token", s.RefreshToken, out)>>
      update(created, newSession) ==
        IF created.err # NoError
          THEN [s |-> s, err |-> Errorf("unable to update session", created.err),
                exchanges |-> exchanges, verify |-> created.verify]
          ELSE [s |-> [s EXCEPT !.AccessToken = newSession.AccessToken,
                                !.IdToken = newSession.IdToken,
                                !.RefreshToken = newSession.RefreshToken,
                                !.ExpiresOn = newSession.ExpiresOn,
                                !.Email = newSession.Email],
                err |-> NoError, exchanges |-> exchanges, verify |-> created.verify]
      project(created) == update(created, created.s)
  IN  IF ~out.ok
        THEN [s |-> s, err |-> Errorf("failed to get token", <<"exchange failed">>),
              exchanges |-> exchanges, verify |-> << >>]
        ELSE project(createSessionState(out, t))

\* The staleness test without its s.RefreshToken == "" disjunct.
FreshIgnoringRefreshToken(s, t) == s.isNil \/ s.ExpiresOn > t

\* s == nil || s.ExpiresOn.After(time.Now()) || s.RefreshToken == ""
Fresh(s, t) == s.isNil \/ s.ExpiresOn > t \/ s.RefreshToken = ""

\* RefreshSessionIfNeeded(s) at time t.
RefreshSessionIfNeeded(s, t, out) ==
  LET result(redeemed) ==
        IF redeemed.err # NoError
          THEN [s |-> redeemed.s, ok |-> FALSE,
                err |-> Errorf("unable to redeem refresh token", redeemed.err),
                exchanges |-> redeemed.exchanges, verify |-> redeemed.verify]
          ELSE [s |-> redeemed.s, ok |-> TRUE, err |-> NoError,
                exchanges |-> redeemed.exchanges, verify |-> redeemed.verify]
  IN  IF Fresh(s, t)
        THEN [s |-> s, ok |-> FALSE, err |-> NoError, exchanges |-> << >>,
              verify |-> << >>]
        ELSE result(redeemRefreshToken(s, t, out))

\* contains that looks at the first element of the slice only.
containsFirstOnly(slice, item) == Len(slice) > 0 /\ slice[1] = item

\* contains(slice, item)
contains(slice, item) == \E i \in DOMAIN slice : slice[i] = item

\* The closure NewOIDCProvider installs.
DefaultValidator == [installed |-> FALSE, groups |-> << >>]

\* The closure SetGroupRestriction(groups) installs.
RestrictedValidator(groups) == [installed |-> TRUE, groups |-> groups]

\* The installed closure verifying state.IdToken where the code verifies
\* state.AccessToken.
ApplyValidatorIdToken(gv, state, t) ==
  LET roles == Payload(state.IdToken).roles
  IN  IF ~gv.installed
        THEN [ok |-> TRUE, verify |-> << >>, panic |-> FALSE]
      ELSE IF state.isNil
        THEN [ok |-> FALSE, verify |-> << >>, panic |-> TRUE]
      ELSE IF ~Verify(state.IdToken, t)
        THEN [ok |-> FALSE, verify |-> <<VerifyCall(state.IdToken, t)>>,
              panic |-> FALSE]
      ELSE IF ~Payload(state.IdToken).decodable
        THEN [ok |-> FALSE, verify |-> <<VerifyCall(state.IdToken, t)>>,
              panic |-> FALSE]
      ELSE [ok |-> \E i \in DOMAIN roles : contains(gv.groups, roles[i]),
            verify |-> <<VerifyCall(state.IdToken, t)>>,
            panic |-> FALSE]

\* The installed closure asking the identity provider for the user's roles.
ApplyValidatorIdpRoles(gv, state, t) ==
  IF ~gv.installed
    THEN [ok |-> TRUE, verify |-> << >>, panic |-> FALSE]
  ELSE IF state.isNil
    THEN [ok |-> FALSE, verify |-> << >>, panic |-> TRUE]
  ELSE IF ~Verify(state.AccessToken, t)
    THEN [ok |-> FALSE, verify |-> <<VerifyCall(state.AccessToken, t)>>,
          panic |-> FALSE]
  ELSE [ok |-> \E i \in DOMAIN idpRoles : contains(gv.groups, idpRoles[i]),
        verify |-> <<VerifyCall(state.AccessToken, t)>>,
        panic |-> FALSE]

\* The default closure verifying the access token like an installed one.
ApplyValidatorDefaultVerifies(gv, state, t) ==
  LET roles == Payload(state.AccessToken).roles
  IN  IF ~gv.installed /\ state.isNil
        THEN [ok |-> TRUE, verify |-> << >>, panic |-> FALSE]
      ELSE IF ~gv.installed
        THEN [ok |-> Verify(state.AccessToken, t),
              verify |-> <<VerifyCall(state.AccessToken, t)>>, panic |-> FALSE]
      ELSE IF state.isNil
        THEN [ok |-> FALSE, verify |-> << >>, panic |-> TRUE]
      ELSE IF ~Verify(state.AccessToken, t)
        THEN [ok |-> FALSE, verify |-> <<VerifyCall(state.AccessToken, t)>>,
              panic |-> FALSE]
      ELSE IF ~Payload(state.AccessToken).decodable
        THEN [ok |-> FALSE, verify |-> <<VerifyCall(state.AccessToken, t)>>,
              panic |-> FALSE]
      ELSE [ok |-> \E i \in DOMAIN roles : contains(gv.groups, roles[i]),
            verify |-> <<VerifyCall(state.AccessToken, t)>>,
            panic |-> FALSE]

\* The installed closure taking an empty list of groups for "no restriction".
ApplyValidatorEmptyAllowsAll(gv, state, t) ==
  LET roles == Payload(state.AccessToken).roles
  IN  IF ~gv.installed
        THEN [ok |-> TRUE, verify |-> << >>, panic |-> FALSE]
      ELSE IF state.isNil
        THEN [ok |-> FALSE, verify |-> << >>, panic |-> TRUE]
      ELSE IF ~Verify(state.AccessToken, t)
        THEN [ok |-> FALSE, verify |-> <<VerifyCall(state.AccessToken, t)>>,
              panic |-> FALSE]
      ELSE IF ~Payload(state.AccessToken).decodable
        THEN [ok |-> FALSE, verify |-> <<VerifyCall(state.AccessToken, t)>>,
              panic |-> FALSE]
      ELSE [ok |-> \/ gv.groups = << >>
                   \/ \E i \in DOMAIN roles : contains(gv.groups, roles[i]),
            verify |-> <<VerifyCall(state.AccessToken, t)>>,
            panic |-> FALSE]

\* p.GroupValidator(state) at time t for the closure gv: the boolean it
\* returns, the verifier calls it made, and whether it dereferenced nil.
ApplyValidator(gv, state, t) ==
  LET roles == Payload(state.AccessToken).roles
  IN  IF ~gv.installed
        THEN [ok |-> TRUE, verify |-> << >>, panic |-> FALSE]
      ELSE IF state.isNil
        THEN [ok |-> FALSE, verify |-> << >>, panic |-> TRUE]
      ELSE IF ~Verify(state.AccessToken, t)
        THEN [ok |-> FALSE, verify |-> <<VerifyCall(state.AccessToken, t)>>,
              panic |-> FALSE]
      ELSE IF ~Payload(state.AccessToken).decodable
        THEN [ok |-> FALSE, verify |-> <<VerifyCall(state.AccessToken, t)>>,
              panic |-> FALSE]
      ELSE [ok |-> \E i \in DOMAIN roles : contains(gv.groups, roles[i]),
            verify |-> <<VerifyCall(state.AccessToken, t)>>,
            panic |-> FALSE]

\* ValidateSessionState checking the expiry as well as the id token.
ValidateSessionStateByExpiry(s, t) ==
  IF s.isNil
    THEN [ok |-> FALSE, verify |-> << >>, panic |-> TRUE]
    ELSE [ok |-> Verify(s.IdToken, t) /\ s.ExpiresOn > t,
          verify |-> <<VerifyCall(s.IdToken, t)>>, panic |-> FALSE]

\* ValidateSessionState(s) at time t; s.IdToken of a nil s is a nil
\* dereference.
ValidateSessionState(s, t) ==
  IF s.isNil
    THEN [ok |-> FALSE, verify |-> << >>, panic |-> TRUE]
    ELSE [ok |-> Verify(s.IdToken, t),
          verify |-> <<VerifyCall(s.IdToken, t)>>, panic |-> FALSE]

\* GetEmailAddress(state) with the userinfo request ending as req: line 35
\* uses req and state before err is looked at, so a nil request or a nil
\* state is a nil dereference.
GetEmailAddress(state, req) ==
  IF req.build = "error" \/ state.isNil
    THEN [email |-> "", err |-> NoError, panic |-> TRUE]
  ELSE IF req.send = "error"
    THEN [email |-> "", err |-> <<"request failed">>, panic |-> FALSE]
  ELSE IF req.send = "no email string"
    THEN [email |-> "", err |-> <<"type assertion to string failed">>,
          panic |-> FALSE]
  ELSE [email |-> req.email, err |-> NoError, panic |-> FALSE]

\* The local part of an email address, which the proxy keeps as the user name.
UserOf(email) ==
  CASE email = "a@example.com" -> "a"
    [] email = "b@example.com" -> "b"
    [] OTHER -> ""

NoCall ==
  [op |-> "none", at |-> 0, pre |-> NilSession, out |-> ExchangeError, s |-> NilSession,
   ok |-> FALSE, err |-> NoError, panic |-> FALSE, exchanges |-> << >>,
   verify |-> << >>, req |-> NoRequest, email |-> ""]

\* The goroutines that may refresh the same session at the same time.
Threads == {1, 2}

\* A goroutine that has not called RefreshSessionIfNeeded yet.
NoLocals ==
  [pre |-> NilSession, cred |-> "", newSession |-> NilSession, next |-> 0,
   ok |-> FALSE, err |-> NoError]

NotSeen == [taken |-> FALSE, inflight |-> {}, five |-> << >>]

\* The role lists the identity provider may hold for the user.
IdpRoleLists == {<<"dev">>, <<"dev", "ops">>}

Init ==
  /\ now = 0
  /\ sess = NilSession
  /\ GroupValidator = DefaultValidator
  /\ call = NoCall
  /\ idpRoles = <<"dev", "ops">>
  /\ pc = [t \in Threads |-> "idle"]
  /\ loc = [t \in Threads |-> NoLocals]
  /\ seen = NotSeen

\* time passes
Tick ==
  /\ now < MaxTime
  /\ now' = now + 1
  /\ UNCHANGED <<sess, GroupValidator, call, others>>

\* p.Redeem(redirectURL, code): the session it returns is call.s
CallRedeem ==
  \E code \in Codes, out \in ExchangeOutcomes :
    \E r \in {Redeem(code, now, out)} :
        /\ call' = [op |-> "Redeem", at |-> now, pre |-> sess, out |-> out, s |-> r.s,
                    ok |-> FALSE, err |-> r.err, panic |-> FALSE,
                    exchanges |-> r.exchanges, verify |-> r.verify,
                    req |-> NoRequest, email |-> ""]
        /\ UNCHANGED <<now, sess, GroupValidator, others>>

\* The proxy keeps the session a successful Redeem returned.
SaveSession ==
  /\ call.op = "Redeem"
  /\ ~call.s.isNil
  /\ sess' = [call.s EXCEPT !.User = UserOf(call.s.Email)]
  /\ call' = [NoCall EXCEPT !.op = "SaveSession", !.at = now, !.pre = sess]
  /\ UNCHANGED <<now, GroupValidator, others>>

\* p.RefreshSessionIfNeeded(sess)
CallRefreshSessionIfNeeded ==
  \E out \in ExchangeOutcomes :
    \E r \in {RefreshSessionIfNeeded(sess, now, out)} :
        /\ sess' = r.s
        /\ call' = [op |-> "RefreshSessionIfNeeded", at |-> now, pre |-> sess,
                    out |-> IF r.exchanges = << >> THEN ExchangeError ELSE out,
                    s |-> NilSession, ok |-> r.ok, err |-> r.err, panic |-> FALSE,
                    exchanges |-> r.exchanges, verify |-> r.verify,
                    req |-> NoRequest, email |-> ""]
        /\ UNCHANGED <<now, GroupValidator, others>>

\* p.SetGroupRestriction(groups)
SetGroupRestriction ==
  \E groups \in GroupLists :
    /\ GroupValidator' = RestrictedValidator(groups)
    /\ call' = [NoCall EXCEPT !.op = "SetGroupRestriction", !.at = now, !.pre = sess]
    /\ UNCHANGED <<now, sess, others>>

\* p.ValidateGroup(sess)
ValidateGroup ==
  \E r \in {ApplyValidator(GroupValidator, sess, now)} :
      /\ call' = [NoCall EXCEPT !.op = "ValidateGroup", !.at = now, !.pre = sess,
                                !.ok = r.ok, !.panic = r.panic, !.verify = r.verify]
      /\ UNCHANGED <<now, sess, GroupValidator, others>>

\* p.ValidateSessionState(sess)
CallValidateSessionState ==
  \E r \in {ValidateSessionState(sess, now)} :
      /\ call' = [NoCall EXCEPT !.op = "ValidateSessionState", !.at = now,
                                !.pre = sess, !.ok = r.ok, !.panic = r.panic,
                                !.verify = r.verify]
      /\ UNCHANGED <<now, sess, GroupValidator, others>>

\* p.GetEmailAddress(sess)
CallGetEmailAddress ==
  \E req \in RequestOutcomes :
    \E r \in {GetEmailAddress(sess, req)} :
      /\ call' = [NoCall EXCEPT !.op = "GetEmailAddress", !.at = now, !.pre = sess,
                                !.req = req, !.email = r.email, !.err = r.err,
                                !.panic = r.panic]
      /\ UNCHANGED <<now, sess, GroupValidator, others>>

Next ==
  \/ Tick
  \/ CallRedeem
  \/ SaveSession
  \/ CallRefreshSessionIfNeeded
  \/ SetGroupRestriction
  \/ ValidateGroup
  \/ CallValidateSessionState
  \/ CallGetEmailAddress

Spec == Init /\ [][Next]_vars

----------------------------------------------------------------------------
\* The identity provider: it may change the roles of the user at any time,
\* and an access token the token endpoint issues carries the roles the
\* provider holds at that time.

IdpChangesRoles ==
  \E roles \in IdpRoleLists \ {idpRoles} :
    /\ idpRoles' = roles
    /\ call' = [NoCall EXCEPT !.op = "IdpChangesRoles", !.at = now, !.pre = sess]
    /\ UNCHANGED <<now, sess, GroupValidator, pc, loc, seen>>

IssuedWithIdpRoles ==
  (call'.exchanges # << >> /\ call'.out.ok /\ now' = now)
    => Payload(call'.out.AccessToken).roles = idpRoles

NextIdp ==
  \/ Next /\ IssuedWithIdpRoles
  \/ IdpChangesRoles

SpecIdp == Init /\ [][NextIdp]_vars

----------------------------------------------------------------------------
\* The last call, for the properties below.

Refreshed == call.op = "RefreshSessionIfNeeded"

Redeemed == call.op = "Redeem"

\* The session RefreshSessionIfNeeded was called with was stale at the time
\* of the call: not nil, a refresh token, and an expiry not after the clock.
StaleAtCall ==
  /\ ~call.pre.isNil
  /\ call.pre.RefreshToken # ""
  /\ call.pre.ExpiresOn <= call.at

\* The verifier accepts the raw token at time t.
Accepted(raw, t) == Payload(raw).key = "good" /\ t <= Payload(raw).exp

\* Why a bundle is unusable at time t ("" when it is usable).
Rejection(token, t) ==
  LET raw == token.id_token
  IN  IF raw = NoIdToken THEN "no id token"
      ELSE IF ~Accepted(raw, t) THEN "not verified"
      ELSE IF ~Payload(raw).decodable THEN "claims undecodable"
      ELSE IF Payload(raw).email = "" THEN "email empty"
      ELSE IF Payload(raw).verified = "false" THEN "email unverified"
      ELSE ""

\* The five fields a refresh writes.
Five(s) == <<s.AccessToken, s.IdToken, s.RefreshToken, s.ExpiresOn, s.Email>>

\* C1: a RefreshSessionIfNeeded call on a stale session that fails (the
\* exchange fails, or the new bundle has no id token, an id token that does
\* not verify, undecodable claims, an empty email or an unverified email)
\* returns (false, non-nil error) and leaves every field of the session as
\* it was before the call.
C1_FailedRefreshLeavesSession ==
  (Refreshed /\ StaleAtCall /\ (~call.out.ok \/ Rejection(call.out, call.at) # ""))
    => /\ call.ok = FALSE
       /\ call.err # NoError
       /\ sess = call.pre

\* A refresh failed after a successful exchange whose bundle differs from
\* the session in the access token, the refresh token and the expiry.
C1_Witness ==
  /\ Refreshed /\ StaleAtCall
  /\ call.out.ok /\ Rejection(call.out, call.at) = "email unverified"
  /\ call.out.AccessToken # call.pre.AccessToken
  /\ call.out.Expiry # call.pre.ExpiresOn
  /\ call.err # NoError /\ sess = call.pre

\* C2: a RefreshSessionIfNeeded call on a stale session that succeeds (the
\* exchange succeeds and the bundle is accepted) returns (true, nil), and
\* the session then holds the bundle's access token, id token, refresh token
\* and expiry and the email claim of the bundle's id token, which the
\* verifier accepted in this call: all five fields come from the new bundle.
C2_RefreshCommitsAllFive ==
  /\ (Refreshed /\ StaleAtCall /\ call.out.ok /\ Rejection(call.out, call.at) = "")
       => /\ call.ok = TRUE
          /\ call.err = NoError
          /\ Five(sess) = <<call.out.AccessToken, call.out.id_token,
                            call.out.RefreshToken, call.out.Expiry,
                            Payload(call.out.id_token).email>>
          /\ call.verify = <<[raw |-> call.out.id_token, ok |-> TRUE]>>
  /\ (Refreshed /\ call.ok)
       => /\ StaleAtCall /\ call.out.ok /\ Rejection(call.out, call.at) = ""
          /\ call.err = NoError

\* A refresh succeeded and changed all five fields at once.
C2_Witness ==
  /\ Refreshed /\ call.ok
  /\ sess.AccessToken # call.pre.AccessToken
  /\ sess.IdToken # call.pre.IdToken
  /\ sess.RefreshToken # call.pre.RefreshToken
  /\ sess.ExpiresOn # call.pre.ExpiresOn
  /\ sess.Email # call.pre.Email

\* C3: RefreshSessionIfNeeded on a session that is nil, or whose expiry is
\* strictly after the clock, or whose refresh token is empty (also with an
\* expiry in the past) returns (false, nil), calls neither the token
\* endpoint nor the verifier, and leaves the session unchanged.
C3_FreshShortCircuit ==
  (Refreshed /\ (call.pre.isNil \/ call.pre.ExpiresOn > call.at
                   \/ call.pre.RefreshToken = ""))
    => /\ call.ok = FALSE
       /\ call.err = NoError
       /\ call.exchanges = << >>
       /\ call.verify = << >>
       /\ sess = call.pre

\* RefreshSessionIfNeeded returned on a session without a refresh token
\* whose expiry lies in the past.
C3_Witness ==
  /\ Refreshed
  /\ ~call.pre.isNil
  /\ call.pre.RefreshToken = ""
  /\ call.pre.ExpiresOn < call.at
  /\ call.ok = FALSE /\ call.err = NoError

\* The last call exchanged a code or a refresh token and got a bundle back.
GotBundle == (Redeemed \/ (Refreshed /\ StaleAtCall)) /\ call.out.ok

\* The one verifier call of createSessionState, accepting the raw token.
AcceptedOnce(raw) == <<[raw |-> raw, ok |-> TRUE]>>

\* C4: the id token of a session Redeem returned or a refresh committed is
\* the raw id token of the bundle, and the verifier accepted it in that very
\* call; a bundle without an id token, or whose id token the verifier
\* rejects, yields no session and changes no session; every session held
\* carries an id token signed with a good key.
C4_IdTokenVerifiedWhenSet ==
  /\ (Redeemed /\ ~call.s.isNil)
       => /\ call.s.IdToken = call.out.id_token
          /\ call.verify = AcceptedOnce(call.s.IdToken)
          /\ Accepted(call.s.IdToken, call.at)
  /\ (Refreshed /\ (call.ok \/ sess # call.pre))
       => /\ sess.IdToken = call.out.id_token
          /\ call.verify = AcceptedOnce(sess.IdToken)
          /\ Accepted(sess.IdToken, call.at)
  /\ (GotBundle /\ Rejection(call.out, call.at) \in {"no id token", "not verified"})
       => /\ call.s.isNil
          /\ call.err # NoError
          /\ sess = call.pre
  /\ ~sess.isNil => Payload(sess.IdToken).key = "good"

\* A refresh was refused because the verifier rejected the new id token,
\* and the session kept its old, different id token.
C4_Witness ==
  /\ Refreshed /\ GotBundle
  /\ Rejection(call.out, call.at) = "not verified"
  /\ call.out.id_token # call.pre.IdToken
  /\ call.verify = <<[raw |-> call.out.id_token, ok |-> FALSE]>>
  /\ sess = call.pre

\* C5: a bundle whose id token decodes to an empty email yields an error, no
\* session from Redeem and no change from a refresh; no session returned or
\* held has an empty email.
C5_NoEmptyEmail ==
  /\ ~sess.isNil => sess.Email # ""
  /\ ~call.s.isNil => call.s.Email # ""
  /\ (GotBundle /\ call.out.id_token # NoIdToken
        /\ Payload(call.out.id_token).decodable
        /\ Payload(call.out.id_token).email = "")
       => /\ call.s.isNil
          /\ call.err # NoError
          /\ call.ok = FALSE
          /\ sess = call.pre

\* Redeem got a bundle whose verified id token has an empty email and
\* returned the error for it.
C5_Witness ==
  /\ Redeemed /\ call.out.ok
  /\ Rejection(call.out, call.at) = "email empty"
  /\ call.s.isNil
  /\ call.err = <<"unable to update session", "id_token did not contain an email">>

\* The bundle's id token verifies at time t and decodes to a non-empty email.
VerifiedWithEmail(token, t) ==
  /\ token.id_token # NoIdToken
  /\ Accepted(token.id_token, t)
  /\ Payload(token.id_token).decodable
  /\ Payload(token.id_token).email # ""

\* C6: for a bundle whose id token verifies and has a non-empty email,
\* projection fails when email_verified is present and false and succeeds
\* when it is absent or true (Redeem returns a session, a refresh commits).
C6_EmailVerifiedTriState ==
  (GotBundle /\ VerifiedWithEmail(call.out, call.at))
    => LET verified == Payload(call.out.id_token).verified
       IN  /\ verified = "false"
                => /\ call.s.isNil /\ call.ok = FALSE
                   /\ call.err # NoError
                   /\ call.err[Len(call.err)] = "email in id_token isn't verified"
           /\ verified \in {"absent", "true"}
                => /\ call.err = NoError
                   /\ Redeemed => ~call.s.isNil
                   /\ Refreshed => call.ok

\* Redeem returned a session for an id token without an email_verified claim.
C6_Witness ==
  /\ Redeemed /\ call.out.ok
  /\ VerifiedWithEmail(call.out, call.at)
  /\ Payload(call.out.id_token).verified = "absent"
  /\ ~call.s.isNil /\ call.err = NoError

\* C7: a successful Redeem returns a session whose access token, refresh
\* token and expiry are the bundle's, whose id token is the bundle's raw id
\* token and whose email is that token's email claim, whatever the clock
\* says; the session the proxy already holds is not changed.
C7_RedeemProjectsBundle ==
  (Redeemed /\ call.err = NoError)
    => /\ ~call.s.isNil
       /\ Five(call.s) = <<call.out.AccessToken, call.out.id_token,
                           call.out.RefreshToken, call.out.Expiry,
                           Payload(call.out.id_token).email>>
       /\ call.s.User = ""
       /\ sess = call.pre

\* Redeem succeeded while the proxy held another session, with a declared
\* expiry that is not the time of the call.
C7_Witness ==
  /\ Redeemed /\ call.err = NoError
  /\ ~call.pre.isNil
  /\ Five(call.s) # Five(call.pre)
  /\ call.s.ExpiresOn # call.at
  /\ sess = call.pre

\* C8: Redeem returns (nil, non-nil error) when the code exchange fails or
\* the bundle is unusable (no id token, verification failure, undecodable
\* claims, empty email, unverified email); it never returns a session
\* together with an error, and a session only after a successful exchange
\* and a successful verification of the bundle's id token.
C8_RedeemFailsClosed ==
  Redeemed
    => /\ (~call.out.ok \/ Rejection(call.out, call.at) # "")
            => (call.s.isNil /\ call.err # NoError)
       /\ ~(~call.s.isNil /\ call.err # NoError)
       /\ (call.s.isNil <=> call.err # NoError)
       /\ ~call.s.isNil
            => /\ call.exchanges =
                    <<[grant |-> "authorization_code", cred |-> call.exchanges[1].cred,
                       ok |-> TRUE]>>
               /\ call.verify = AcceptedOnce(call.out.id_token)

\* Redeem got a bundle whose claims cannot be decoded and returned
\* (nil, error).
C8_Witness ==
  /\ Redeemed /\ call.out.ok
  /\ Rejection(call.out, call.at) = "claims undecodable"
  /\ call.s.isNil
  /\ call.err = <<"unable to update session", "failed to parse id_token claims">>

\* The last call was ValidateGroup on a session, with a group policy installed.
Authorized == call.op = "ValidateGroup" /\ GroupValidator.installed /\ ~call.pre.isNil

\* C9 as claimed: with a group policy installed, ValidateGroup returns false
\* whenever the session's id token fails verification.
C9_Original ==
  (Authorized /\ ~Accepted(call.pre.IdToken, call.at)) => call.ok = FALSE

\* C9 as amended: with a group policy installed, ValidateGroup returns false
\* whenever the session's access token fails verification, whatever the
\* other fields of the session are, its id token included.
C9_FailClosedOnAccessToken ==
  (Authorized /\ ~Accepted(call.pre.AccessToken, call.at))
    => /\ call.ok = FALSE
       /\ call.panic = FALSE
       /\ call.verify = <<[raw |-> call.pre.AccessToken, ok |-> FALSE]>>

\* ValidateGroup denied a session whose access token does not verify,
\* although its id token verifies and the unverified access token names an
\* allowed role.
C9_Witness ==
  /\ Authorized
  /\ ~Accepted(call.pre.AccessToken, call.at)
  /\ Accepted(call.pre.IdToken, call.at)
  /\ \E i \in DOMAIN GroupValidator.groups :
       \E j \in DOMAIN Payload(call.pre.AccessToken).roles :
         GroupValidator.groups[i] = Payload(call.pre.AccessToken).roles[j]
  /\ call.ok = FALSE

\* The roles under realm_access.roles of a raw token (none when the claim
\* cannot be decoded), and the allowed groups of the installed policy.
RolesOf(raw) ==
  IF Payload(raw).decodable
    THEN {Payload(raw).roles[i] : i \in DOMAIN Payload(raw).roles}
    ELSE {}

AllowedGroups == {GroupValidator.groups[i] : i \in DOMAIN GroupValidator.groups}

\* C10: with a group policy installed and a session whose token (the access
\* token, which is the token ValidateGroup verifies and decodes) verifies,
\* ValidateGroup returns true if and only if at least one role of the
\* token's realm_access.roles is one of the allowed groups.
C10_GroupMatch ==
  (Authorized /\ Accepted(call.pre.AccessToken, call.at))
    => /\ call.ok <=> (RolesOf(call.pre.AccessToken) \cap AllowedGroups # {})
       /\ call.panic = FALSE

\* Policy <<admin, ops>> and roles <<dev, ops>>: ValidateGroup returned true.
C10_Witness ==
  /\ Authorized
  /\ GroupValidator.groups = <<"admin", "ops">>
  /\ Accepted(call.pre.AccessToken, call.at)
  /\ Payload(call.pre.AccessToken).roles = <<"dev", "ops">>
  /\ call.ok = TRUE

\* C11: on a provider on which SetGroupRestriction was never called,
\* ValidateGroup returns true for every session, nil included, calls the
\* verifier not at all and leaves the session as it is.
C11_DefaultPolicyPermits ==
  (call.op = "ValidateGroup" /\ ~GroupValidator.installed)
    => /\ call.ok = TRUE
       /\ call.panic = FALSE
       /\ call.verify = << >>
       /\ sess = call.pre

\* Without a policy installed, ValidateGroup returned true for a session
\* whose access token does not verify.
C11_Witness ==
  /\ call.op = "ValidateGroup" /\ ~GroupValidator.installed
  /\ ~call.pre.isNil
  /\ ~Accepted(call.pre.AccessToken, call.at)
  /\ call.ok = TRUE

\* The last call was ValidateSessionState on a session.
Validated == call.op = "ValidateSessionState" /\ ~call.pre.isNil

\* C12: ValidateSessionState returns true if and only if the verifier
\* accepts the session's id token at the time of the call, whatever the
\* expiry, the access token and the refresh token are, and does not change
\* the session.
C12_ValidIffIdTokenVerifies ==
  Validated
    => /\ call.ok <=> Accepted(call.pre.IdToken, call.at)
       /\ call.verify = <<[raw |-> call.pre.IdToken, ok |-> call.ok]>>
       /\ call.panic = FALSE
       /\ sess = call.pre

\* A session whose expiry lies in the past and whose id token verifies was
\* found valid.
C12_Witness ==
  /\ Validated
  /\ call.pre.ExpiresOn < call.at
  /\ Accepted(call.pre.IdToken, call.at)
  /\ call.ok = TRUE

\* C15 as claimed: GetEmailAddress never changes the session; when the
\* request cannot be built or sent, or the response has no email string, it
\* returns an error and an empty email and does not crash; on success it
\* returns the email field of the response.
C15_Original ==
  (call.op = "GetEmailAddress" /\ ~call.pre.isNil)
    => /\ sess = call.pre
       /\ call.panic = FALSE
       /\ (call.req.build = "error" \/ call.req.send # "ok")
            => (call.err # NoError /\ call.email = "")
       /\ (call.req.build = "ok" /\ call.req.send = "ok")
            => (call.err = NoError /\ call.email = call.req.email)

\* C16: a RefreshSessionIfNeeded call on a stale session (not nil, a refresh
\* token, an expiry not after the clock, the clock itself included) asks the
\* token endpoint exactly once, with the refresh token the session held, and
\* never again: a failed exchange ends the call with an error and without a
\* verifier call, and the verifier is called only after a successful one.
C16_OneExchangeNoRetry ==
  (Refreshed /\ StaleAtCall)
    => /\ call.exchanges =
            <<[grant |-> "refresh_token", cred |-> call.pre.RefreshToken,
               ok |-> call.out.ok]>>
       /\ ~call.out.ok => (call.err # NoError /\ call.ok = FALSE /\ call.verify = << >>)
       /\ call.verify # << >> => call.exchanges[1].ok
       /\ Len(call.verify) <= 1

\* A refresh of a session expiring exactly now made its one exchange, which
\* failed.
C16_Witness ==
  /\ Refreshed /\ StaleAtCall
  /\ call.pre.ExpiresOn = call.at
  /\ ~call.out.ok
  /\ Len(call.exchanges) = 1
  /\ call.err = <<"unable to redeem refresh token", "failed to get token",
                  "exchange failed">>

\* C17: a step that is a successful RefreshSessionIfNeeded changes nothing
\* but the five fields of the session: the user name stays, the session
\* stays non-nil, and the provider's group validator stays, also when the
\* refreshed email differs from the previous one.
C17_RefreshFrame ==
  [][(call'.op = "RefreshSessionIfNeeded" /\ call'.ok /\ now' = now)
       => /\ sess'.User = sess.User
          /\ sess'.isNil = sess.isNil
          /\ sess' = [sess EXCEPT !.AccessToken = sess'.AccessToken,
                                  !.IdToken = sess'.IdToken,
                                  !.RefreshToken = sess'.RefreshToken,
                                  !.ExpiresOn = sess'.ExpiresOn,
                                  !.Email = sess'.Email]
          /\ GroupValidator' = GroupValidator]_vars

\* A refresh changed the email of a session and kept its user name, with a
\* group policy installed.
C17_Witness ==
  /\ Refreshed /\ call.ok
  /\ sess.Email # call.pre.Email
  /\ sess.User = call.pre.User /\ sess.User # ""
  /\ sess.User # UserOf(sess.Email)
  /\ GroupValidator.installed

\* C19: a successful refresh whose bundle has an empty refresh token leaves
\* the session without a refresh token; and as long as the proxy holds a
\* session without a refresh token, every RefreshSessionIfNeeded on it
\* returns (false, nil) without an exchange and changes nothing, however far
\* in the past the expiry is.
C19_NoRefreshTokenNoRefresh ==
  [][/\ (call'.op = "RefreshSessionIfNeeded" /\ now' = now /\ call'.ok
           /\ call'.out.RefreshToken = "")
          => sess'.RefreshToken = ""
     /\ (~sess.isNil /\ sess.RefreshToken = "" /\ call'.op # "SaveSession")
          => /\ sess' = sess
             /\ (call'.op = "RefreshSessionIfNeeded" /\ now' = now)
                  => /\ call'.ok = FALSE
                     /\ call'.err = NoError
                     /\ call'.exchanges = << >>]_vars

\* A successful refresh replaced the refresh token of the session by the
\* empty one of the bundle.
C19_Witness ==
  /\ Refreshed /\ call.ok
  /\ call.pre.RefreshToken # ""
  /\ call.out.RefreshToken = ""
  /\ sess.RefreshToken = ""

\* C20: with the empty list of groups installed, ValidateGroup returns false
\* for every session, whatever roles its access token carries; and with any
\* list installed it returns false for a session whose access token carries
\* no roles.
C20_EmptyDenies ==
  Authorized
    => /\ GroupValidator.groups = << >> => call.ok = FALSE
       /\ RolesOf(call.pre.AccessToken) = {} => call.ok = FALSE

\* With the empty list installed, ValidateGroup denied a session whose
\* access token verifies and carries roles.
C20_Witness ==
  /\ Authorized
  /\ GroupValidator.groups = << >>
  /\ Accepted(call.pre.AccessToken, call.at)
  /\ RolesOf(call.pre.AccessToken) # {}
  /\ call.ok = FALSE

\* The decision the installed policy would take from the roles the identity
\* provider holds now.
IdpDecision == \E i \in DOMAIN idpRoles : idpRoles[i] \in AllowedGroups

\* C14 as claimed: with a group policy installed, ValidateGroup on a session
\* whose access token verifies decides by the roles the identity provider
\* holds at the time of the call, so that a change of roles there shows in
\* the next call without a refresh or a redeem.
C14_Original ==
  (Authorized /\ Accepted(call.pre.AccessToken, call.at)) => (call.ok <=> IdpDecision)

\* C14 as amended: with a group policy installed, every ValidateGroup call
\* decides by the roles in the access token the session holds; when the
\* identity provider has changed the user's roles since that token was
\* issued, the call still decides by the token's roles, until a refresh or
\* a redeem puts a newly issued token into the session.
C14_DecisionFromTokenRoles ==
  (Authorized /\ Accepted(call.pre.AccessToken, call.at)
     /\ Payload(call.pre.AccessToken).roles # idpRoles)
    => (call.ok <=> (RolesOf(call.pre.AccessToken) \cap AllowedGroups # {}))

\* After a change of roles at the identity provider, ValidateGroup decided
\* by the token's roles, against what the provider's roles would give.
C14_Witness ==
  /\ Authorized
  /\ Accepted(call.pre.AccessToken, call.at)
  /\ Payload(call.pre.AccessToken).roles # idpRoles
  /\ call.ok # IdpDecision
  /\ call.ok <=> (RolesOf(call.pre.AccessToken) \cap AllowedGroups # {})

----------------------------------------------------------------------------
\* Two goroutines calling RefreshSessionIfNeeded on the same stale session,
\* one statement at a time, and a reader of that session.  Nothing in
\* oidc.go locks the session.

\* The session they share: the one Redeem returns for ConcBundle at time 0.
ConcBundle ==
  [ok |-> TRUE, AccessToken |-> "at_devops", RefreshToken |-> "RT1", Expiry |-> 0,
   id_token |-> "id_b"]

ConcSession ==
  [Redeem("abc123", 0, ConcBundle).s EXCEPT !.User = UserOf("b@example.com")]

\* What the token endpoint answers them.
ConcOutcomes ==
  {ExchangeError,
   [ok |-> TRUE, AccessToken |-> "at_dev", RefreshToken |-> "", Expiry |-> MaxTime,
    id_token |-> "id_a"],
   [ok |-> TRUE, AccessToken |-> "at_badsig", RefreshToken |-> "RT1", Expiry |-> 0,
    id_token |-> "id_b"],
   [ok |-> TRUE, AccessToken |-> "at_dev", RefreshToken |-> "RT1", Expiry |-> MaxTime,
    id_token |-> "id_unverified"]}

InitConc ==
  /\ now = 0
  /\ sess = ConcSession
  /\ GroupValidator = DefaultValidator
  /\ call = NoCall
  /\ idpRoles = <<"dev", "ops">>
  /\ pc = [t \in Threads |-> "idle"]
  /\ loc = [t \in Threads |-> NoLocals]
  /\ seen = NotSeen

\* The k-th assignment of lines 153-157 with the fields in the wrong order
\* (s.IdToken = newSession.AccessToken).
WriteFieldSlip(s, newSession, k) ==
  CASE k = 1 -> [s EXCEPT !.AccessToken = newSession.AccessToken]
    [] k = 2 -> [s EXCEPT !.IdToken = newSession.AccessToken]
    [] k = 3 -> [s EXCEPT !.RefreshToken = newSession.RefreshToken]
    [] k = 4 -> [s EXCEPT !.ExpiresOn = newSession.ExpiresOn]
    [] k = 5 -> [s EXCEPT !.Email = newSession.Email]

\* The k-th assignment of lines 153-157.
WriteField(s, newSession, k) ==
  CASE k = 1 -> [s EXCEPT !.AccessToken = newSession.AccessToken]
    [] k = 2 -> [s EXCEPT !.IdToken = newSession.IdToken]
    [] k = 3 -> [s EXCEPT !.RefreshToken = newSession.RefreshToken]
    [] k = 4 -> [s EXCEPT !.ExpiresOn = newSession.ExpiresOn]
    [] k = 5 -> [s EXCEPT !.Email = newSession.Email]

\* Line 117: the staleness test.
Check(t) ==
  /\ pc[t] = "idle"
  /\ IF Fresh(sess, now)
       THEN /\ pc' = [pc EXCEPT ![t] = "done"]
            /\ loc' = [loc EXCEPT ![t] = [@ EXCEPT !.pre = sess, !.ok = FALSE,
                                                   !.err = NoError]]
       ELSE /\ pc' = [pc EXCEPT ![t] = "exchange"]
            /\ loc' = [loc EXCEPT ![t] = [@ EXCEPT !.pre = sess]]
  /\ UNCHANGED <<now, sess, GroupValidator, call, idpRoles, seen>>

\* Lines 141-152: read s.RefreshToken, ask the token endpoint, project the
\* bundle; on an error return (false, err) through lines 124-126.
Exchange(t) ==
  /\ pc[t] = "exchange"
  /\ \E out \in ConcOutcomes :
       \E created \in {createSessionState(out, now)} :
         IF ~out.ok
           THEN /\ pc' = [pc EXCEPT ![t] = "done"]
                /\ loc' = [loc EXCEPT ![t] =
                             [@ EXCEPT !.cred = sess.RefreshToken, !.ok = FALSE,
                                       !.err = Errorf("unable to redeem refresh token",
                                                 Errorf("failed to get token",
                                                        <<"exchange failed">>))]]
         ELSE IF created.err # NoError
           THEN /\ pc' = [pc EXCEPT ![t] = "done"]
                /\ loc' = [loc EXCEPT ![t] =
                             [@ EXCEPT !.cred = sess.RefreshToken, !.ok = FALSE,
                                       !.err = Errorf("unable to redeem refresh token",
                                                 Errorf("unable to update session",
                                                        created.err))]]
         ELSE /\ pc' = [pc EXCEPT ![t] = "commit"]
              /\ loc' = [loc EXCEPT ![t] =
                           [@ EXCEPT !.cred = sess.RefreshToken,
                                     !.newSession = created.s, !.next = 1]]
  /\ UNCHANGED <<now, sess, GroupValidator, call, idpRoles, seen>>

\* Lines 153-157, one assignment at a time; after the last one the call
\* returns (true, nil) through lines 128-129.
Commit(t) ==
  /\ pc[t] = "commit"
  /\ sess' = WriteField(sess, loc[t].newSession, loc[t].next)
  /\ IF loc[t].next = 5
       THEN /\ pc' = [pc EXCEPT ![t] = "done"]
            /\ loc' = [loc EXCEPT ![t] = [@ EXCEPT !.ok = TRUE, !.err = NoError]]
       ELSE /\ pc' = pc
            /\ loc' = [loc EXCEPT ![t] = [@ EXCEPT !.next = @ + 1]]
  /\ UNCHANGED <<now, GroupValidator, call, idpRoles, seen>>

\* A reader (an authorization or validity check in another goroutine) looks
\* at the session.
Observe ==
  /\ seen' = [taken |-> TRUE,
              inflight |-> {t \in Threads : pc[t] \in {"exchange", "commit"}},
              five |-> Five(sess)]
  /\ UNCHANGED <<now, sess, GroupValidator, call, idpRoles, pc, loc>>

NextConc ==
  \/ \E t \in Threads : Check(t)
  \/ \E t \in Threads : Exchange(t)
  \/ \E t \in Threads : Commit(t)
  \/ Observe

SpecConc == InitConc /\ [][NextConc]_vars

\* C13 as claimed: while one RefreshSessionIfNeeded call is in flight on a
\* session and no other goroutine refreshes it, a reader sees either the
\* five fields as they were before the call or the five fields of the newly
\* projected session, never a mix.
C13_Original ==
  \A t \in Threads :
    (seen.taken /\ seen.inflight = {t} /\ \A u \in Threads \ {t} : pc[u] = "idle")
      => seen.five \in {Five(loc[t].pre), Five(loc[t].newSession)}

\* Both calls have returned (true, nil).
BothRefreshed == \A t \in Threads : pc[t] = "done" /\ loc[t].ok

\* C18: nothing serializes two RefreshSessionIfNeeded calls on one session.
\* Each call that got past the staleness test asks the token endpoint with
\* the refresh token it finds in the session at that moment (the one it was
\* called with, or one the other call has written meanwhile); and when both
\* have returned (true, nil), every one of the five fields holds the value
\* of one of the two bundles, not necessarily the same bundle for all
\* fields, and the user name is untouched.
C18_UnserializedRefresh ==
  /\ \A t \in Threads :
       pc[t] \in {"commit", "done"} /\ ~Fresh(loc[t].pre, now)
         => \/ loc[t].cred = loc[t].pre.RefreshToken
            \/ \E u \in Threads \ {t} :
                 /\ pc[u] \in {"commit", "done"}
                 /\ loc[u].cred # ""
                 /\ loc[t].cred = loc[u].newSession.RefreshToken
  /\ BothRefreshed
       => /\ \A k \in 1..5 :
               \E t \in Threads : Five(sess)[k] = Five(loc[t].newSession)[k]
          /\ sess.User = ConcSession.User

\* Both calls passed the staleness test on the same session, asked the
\* token endpoint with the same refresh token, returned (true, nil), and
\* left a session that is neither bundle's.
C18_Witness ==
  /\ BothRefreshed
  /\ loc[1].pre = loc[2].pre
  /\ loc[1].cred = loc[2].cred /\ loc[1].cred # ""
  /\ Five(sess) # Five(loc[1].newSession)
  /\ Five(sess) # Five(loc[2].newSession)
  /\ \E k \in 1..5 : Five(sess)[k] # Five(loc[1].newSession)[k]
                     /\ Five(sess)[k] = Five(loc[2].newSession)[k]

====
